---- MODULE Spec2Model ----
(***************************************************************************)
(* Anomaly rule controller (addAnomaly, getAllAnomalies, updateAnomaly,    *)
(* deleteAnomaly) over the Anomaly table, the Camera table and the         *)
(* Anomaly<->Camera join table.  Every handler is one action: the request  *)
(* is its input, the tables and the HTTP response are its result.          *)
(***************************************************************************)
EXTENDS Integers, Sequences, FiniteSets, TLC

VARIABLES
    anomalies,  \* Anomaly table: anomalyId -> row
    assoc,      \* join table: set of <<anomalyId, cameraId>>
    nextId,     \* next auto-increment anomalyId
    req,        \* the request handled last
    resp,       \* the response sent for it
    calls,      \* storage calls issued while handling it, in order
    tasks       \* requests in flight, each at one of its awaits

vars == <<anomalies, assoc, nextId, req, resp, calls, tasks>>

(* ------------------------------ bounds -------------------------------- *)

\* Rows the Anomaly table ever receives (caps the auto-increment counter).
MaxAnomalies == 2

(* ------------------------------ values -------------------------------- *)

\* JS undefined / null: a field the request body does not carry.
Null == "null"

Orgs == {"orgA", "orgB"}

\* Camera table rows: cameraId -> organizationId.  The anomaly controller
\* only reads it.  Camera 4 is not stored.
Camera == (1 :> "orgA") @@ (2 :> "orgA") @@ (3 :> "orgB")

\* The weekday domain (constants/days).
DAYS_OF_WEEK == {"Sun", "Mon", "Tue", "Wed", "Thu", "Fri", "Sat"}

\* Status a row gets from the table default when Anomaly.create passes none.
DefaultStatus == "active"

\* Array-typed body fields: absent, a non-array truthy value, or an array.
Absent == [kind |-> "absent", items |-> <<>>]
Scalar == [kind |-> "scalar", items |-> <<>>]
Arr(s) == [kind |-> "array", items |-> s]

Range(s) == {s[i] : i \in DOMAIN s}

(* ----------------------- pure parts of the handlers ------------------- *)

\* !v for a scalar body field: undefined, null and "" are falsy.
Falsy(v) == v \in {Null, ""}

\* !a for an array-typed body field: only an absent one is falsy ([] is truthy).
FalsyArr(a) == a.kind = "absent"

\* Array.isArray
IsArray(a) == a.kind = "array"

\* (variant: the endTime check is left out)
MissingRequiredNoEndTime(b) ==
    \/ Falsy(b.title) \/ Falsy(b.description) \/ Falsy(b.modelName)
    \/ FalsyArr(b.cameraIds)
    \/ Falsy(b.startTime)
    \/ FalsyArr(b.daysOfWeek)

\* addAnomaly: "Validate required fields"
MissingRequired(b) ==
    \/ Falsy(b.title) \/ Falsy(b.description) \/ Falsy(b.modelName)
    \/ FalsyArr(b.cameraIds)
    \/ Falsy(b.startTime) \/ Falsy(b.endTime)
    \/ FalsyArr(b.daysOfWeek)

\* (variant: the length check is left out)
BadCameraIdsAnyLength(b) == ~IsArray(b.cameraIds)

\* addAnomaly: "Validate cameraIds is array"
BadCameraIds(b) == ~IsArray(b.cameraIds) \/ Len(b.cameraIds.items) = 0

\* (variant: only the first day is looked at)
ValidDaysFirstOnly(days) == days = << >> \/ days[1] \in DAYS_OF_WEEK

\* addAnomaly: "Validate days values"
ValidDays(days) == \A i \in DOMAIN days : days[i] \in DAYS_OF_WEEK

\* (variant: the organizationId condition is left out of the query)
findAllCamerasAnyOrg(cameraIds, organizationId) ==
    {c \in DOMAIN Camera : c \in Range(cameraIds)}

\* Camera.findAll({ where: { cameraId: { [Op.in]: cameraIds }, organizationId } })
findAllCameras(cameraIds, organizationId) ==
    {c \in DOMAIN Camera : c \in Range(cameraIds) /\ Camera[c] = organizationId}

\* (variant: only an empty result is refused)
CountMismatchNoneFound(cameras, cameraIds) == Cardinality(cameras) = 0

\* (variant: the list is deduplicated before it is counted)
CountMismatchDistinct(cameras, cameraIds) ==
    Cardinality(cameras) # Cardinality(Range(cameraIds))

\* cameras.length !== cameraIds.length
CountMismatch(cameras, cameraIds) == Cardinality(cameras) # Len(cameraIds)

\* (variant: the row is looked up by anomalyId alone)
findOneAnyOrg(tbl, anomalyId, organizationId) == anomalyId \in DOMAIN tbl

\* Anomaly.findOne({ where: { anomalyId, organizationId } }) finds a row
findOne(tbl, anomalyId, organizationId) ==
    anomalyId \in DOMAIN tbl /\ tbl[anomalyId].organizationId = organizationId

\* Cameras joined to an anomaly (include: [{ model: Camera }])
getCameras(join, anomalyId) == {p[2] : p \in {q \in join : q[1] = anomalyId}}

\* (variant: addCameras, which keeps the rows already there)
setCamerasKeepOld(join, anomalyId, cameras) ==
    join \cup {<<anomalyId, c>> : c \in cameras}

\* (variant: only one of the cameras is associated)
setCamerasOne(join, anomalyId, cameras) ==
    {p \in join : p[1] # anomalyId}
        \cup {<<anomalyId, c>> : c \in {d \in cameras : \A e \in cameras : d <= e}}

\* anomaly.setCameras(cameras): the anomaly's rows of the join table become
\* exactly the given cameras
setCameras(join, anomalyId, cameras) ==
    {p \in join : p[1] # anomalyId} \cup {<<anomalyId, c>> : c \in cameras}

\* What a setCameras that throws may leave behind: it removes the obsolete rows
\* and inserts the new ones as two independent statements.
setCamerasFailed(join, anomalyId, cameras) ==
    LET old      == getCameras(join, anomalyId)
        obsolete == old \ cameras
        added    == cameras \ old
    IN  {join} \cup
        (IF obsolete # {} /\ added # {}
         THEN {setCameras(join, anomalyId, old \ obsolete),
               setCameras(join, anomalyId, old \cup added)}
         ELSE {})

\* (variant: plain assignment, an omitted field overwrites with null)
CoalesceOverwrite(value, current) == value

\* value ?? current
Coalesce(value, current) == IF value = Null THEN current ELSE value

\* Anomaly.create({...}): the new row
NewRow(id, organizationId, b) ==
    [anomalyId      |-> id,
     title          |-> b.title,
     description    |-> b.description,
     criticality    |-> b.criticality,
     modelName      |-> b.modelName,
     organizationId |-> organizationId,
     startTime      |-> b.startTime,
     endTime        |-> b.endTime,
     daysOfWeek     |-> b.daysOfWeek.items,
     status         |-> DefaultStatus]

\* (variant: the owner and the times are merged from the body as well)
MergedWithSchedule(row, b) ==
    LET sent(f) == IF f \in DOMAIN b THEN b[f] ELSE Null
    IN  [row EXCEPT !.title          = Coalesce(b.title, row.title),
                    !.description    = Coalesce(b.description, row.description),
                    !.criticality    = Coalesce(b.criticality, row.criticality),
                    !.modelName      = Coalesce(b.modelName, row.modelName),
                    !.status         = Coalesce(b.status, row.status),
                    !.organizationId = Coalesce(sent("organizationId"), row.organizationId),
                    !.startTime      = Coalesce(sent("startTime"), row.startTime),
                    !.endTime        = Coalesce(sent("endTime"), row.endTime)]

\* updateAnomaly: "Update other fields"
Merged(row, b) ==
    [row EXCEPT !.title       = Coalesce(b.title, row.title),
                !.description = Coalesce(b.description, row.description),
                !.criticality = Coalesce(b.criticality, row.criticality),
                !.modelName   = Coalesce(b.modelName, row.modelName),
                !.status      = Coalesce(b.status, row.status)]

\* A row together with its cameras, as findByPk / findAll with include return it
WithCameras(row, join) == [row |-> row, Cameras |-> getCameras(join, row.anomalyId)]

(* ------------------------------ responses ----------------------------- *)

NoAnomaly == [row |-> [anomalyId |-> 0], Cameras |-> {}]

Res(status, error, anomaly, list) ==
    [status |-> status, error |-> error, anomaly |-> anomaly, list |-> list]

Fail(status, error) == Res(status, error, NoAnomaly, {})

Request(op, organizationId, anomalyId, body) ==
    [op |-> op, organizationId |-> organizationId, anomalyId |-> anomalyId,
     body |-> body]

NoBody == [none |-> TRUE]

(* -------------------------------- state ------------------------------- *)

\* The requests that may be in flight at the same time
Tasks == {"t1", "t2"}

\* A slot with no request in it
Idle == [pc |-> "idle"]

Init ==
    /\ anomalies = << >>
    /\ assoc = {}
    /\ nextId = 1
    /\ req = Request("none", "orgA", 0, NoBody)
    /\ resp = Fail(0, "")
    /\ calls = << >>
    /\ tasks = [t \in Tasks |-> Idle]

\* A handler that answers without touching the tables
Reply(r, cs) ==
    /\ resp' = r
    /\ calls' = cs
    /\ UNCHANGED <<anomalies, assoc, nextId>>

(* ------------------------------ addAnomaly ---------------------------- *)

\* fault names the storage call that throws during this request ("none": none does).
addAnomaly(organizationId, b, fault) ==
    /\ req' = Request("addAnomaly", organizationId, 0, b)
    /\ UNCHANGED tasks
    /\ IF MissingRequired(b)
       THEN Reply(Fail(400, "Missing required fields"), << >>)
       ELSE IF BadCameraIds(b)
       THEN Reply(Fail(400, "cameraIds must be a non-empty array"), << >>)
       ELSE IF ~IsArray(b.daysOfWeek)
       THEN Reply(Fail(400, "daysOfWeek must be an array"), << >>)
       ELSE IF ~ValidDays(b.daysOfWeek.items)
       THEN Reply(Fail(400, "Invalid day values"), << >>)
       ELSE IF fault = "Camera.findAll"
       THEN Reply(Fail(500, "Failed to add anomaly"), <<"Camera.findAll">>)
       ELSE LET cameras == findAllCameras(b.cameraIds.items, organizationId)
                id      == nextId
                created == (id :> NewRow(id, organizationId, b)) @@ anomalies
            IN  IF CountMismatch(cameras, b.cameraIds.items)
                THEN Reply(Fail(404, "One or more cameras not found or access denied"),
                           <<"Camera.findAll">>)
                ELSE IF fault = "Anomaly.create"
                THEN Reply(Fail(500, "Failed to add anomaly"),
                           <<"Camera.findAll", "Anomaly.create">>)
                ELSE /\ nextId <= MaxAnomalies
                     /\ anomalies' = created
                     /\ nextId' = nextId + 1
                     /\ IF fault = "setCameras"
                        THEN /\ assoc' \in setCamerasFailed(assoc, id, cameras)
                             /\ resp' = Fail(500, "Failed to add anomaly")
                             /\ calls' = <<"Camera.findAll", "Anomaly.create",
                                           "setCameras">>
                        ELSE /\ assoc' = setCameras(assoc, id, cameras)
                             /\ calls' = <<"Camera.findAll", "Anomaly.create",
                                           "setCameras", "Anomaly.findByPk">>
                             /\ resp' = IF fault = "Anomaly.findByPk"
                                        THEN Fail(500, "Failed to add anomaly")
                                        ELSE Res(201, "",
                                                 WithCameras(created[id], assoc'), {})

(* ---------------------------- getAllAnomalies ------------------------- *)

\* (variant: the organizationId condition is left out of the query)
findAllAnomaliesAnyOrg(tbl, join, organizationId) ==
    {WithCameras(tbl[i], join) : i \in DOMAIN tbl}

\* Anomaly.findAll({ where: { organizationId }, include: [Camera] })
findAllAnomalies(tbl, join, organizationId) ==
    {WithCameras(tbl[i], join) :
        i \in {j \in DOMAIN tbl : tbl[j].organizationId = organizationId}}

getAllAnomalies(organizationId, fault) ==
    /\ req' = Request("getAllAnomalies", organizationId, 0, NoBody)
    /\ UNCHANGED tasks
    /\ IF fault = "Anomaly.findAll"
       THEN Reply(Fail(500, "Failed to fetch anomalies"), <<"Anomaly.findAll">>)
       ELSE Reply(Res(200, "", NoAnomaly,
                      findAllAnomalies(anomalies, assoc, organizationId)),
                  <<"Anomaly.findAll">>)

(* ----------------------------- updateAnomaly -------------------------- *)

NotFoundMsg == "Anomaly not found or does not belong to your organization"

updateAnomaly(organizationId, anomalyId, b, fault) ==
    /\ req' = Request("updateAnomaly", organizationId, anomalyId, b)
    /\ UNCHANGED <<nextId, tasks>>
    /\ IF fault = "Anomaly.findOne"
       THEN /\ resp' = Fail(500, "Failed to update anomaly")
            /\ calls' = <<"Anomaly.findOne">>
            /\ UNCHANGED <<anomalies, assoc>>
       ELSE IF ~findOne(anomalies, anomalyId, organizationId)
       THEN /\ resp' = Fail(404, NotFoundMsg)
            /\ calls' = <<"Anomaly.findOne">>
            /\ UNCHANGED <<anomalies, assoc>>
       ELSE LET bind    == ~FalsyArr(b.cameraIds)   \* if (cameraIds)
                cameras == findAllCameras(b.cameraIds.items, organizationId)
                c1      == <<"Anomaly.findOne">>
                c2      == IF bind THEN c1 \o <<"Camera.findAll">> ELSE c1
                c3      == IF bind THEN c2 \o <<"setCameras">> ELSE c2
                updated == [anomalies EXCEPT
                               ![anomalyId] = Merged(anomalies[anomalyId], b)]
            IN  IF bind /\ fault = "Camera.findAll"
                THEN /\ resp' = Fail(500, "Failed to update anomaly")
                     /\ calls' = c2
                     /\ UNCHANGED <<anomalies, assoc>>
                ELSE IF bind /\ CountMismatch(cameras, b.cameraIds.items)
                THEN /\ resp' = Fail(404, "One or more cameras not found or access denied")
                     /\ calls' = c2
                     /\ UNCHANGED <<anomalies, assoc>>
                ELSE IF bind /\ fault = "setCameras"
                THEN /\ assoc' \in setCamerasFailed(assoc, anomalyId, cameras)
                     /\ resp' = Fail(500, "Failed to update anomaly")
                     /\ calls' = c3
                     /\ UNCHANGED anomalies
                ELSE /\ assoc' = IF bind THEN setCameras(assoc, anomalyId, cameras)
                                 ELSE assoc
                     /\ IF fault = "save"
                        THEN /\ resp' = Fail(500, "Failed to update anomaly")
                             /\ calls' = c3 \o <<"save">>
                             /\ UNCHANGED anomalies
                        ELSE /\ anomalies' = updated
                             /\ calls' = c3 \o <<"save", "Anomaly.findByPk">>
                             /\ resp' = IF fault = "Anomaly.findByPk"
                                        THEN Fail(500, "Failed to update anomaly")
                                        ELSE Res(200, "Anomaly updated successfully",
                                                 WithCameras(updated[anomalyId], assoc'),
                                                 {})

(* ----------------------------- deleteAnomaly -------------------------- *)

\* (variant: the row is kept)
destroyKeepsRow(tbl, anomalyId) == tbl

\* anomaly.destroy()
destroy(tbl, anomalyId) == [i \in DOMAIN tbl \ {anomalyId} |-> tbl[i]]

deleteAnomaly(organizationId, anomalyId, fault) ==
    /\ req' = Request("deleteAnomaly", organizationId, anomalyId, NoBody)
    /\ UNCHANGED <<nextId, tasks>>
    /\ IF fault = "Anomaly.findOne"
       THEN /\ resp' = Fail(500, "Failed to delete anomaly")
            /\ calls' = <<"Anomaly.findOne">>
            /\ UNCHANGED <<anomalies, assoc>>
       ELSE IF ~findOne(anomalies, anomalyId, organizationId)
       THEN /\ resp' = Fail(404, NotFoundMsg)
            /\ calls' = <<"Anomaly.findOne">>
            /\ UNCHANGED <<anomalies, assoc>>
       ELSE IF fault = "setCameras"
       THEN /\ assoc' \in setCamerasFailed(assoc, anomalyId, {})
            /\ resp' = Fail(500, "Failed to delete anomaly")
            /\ calls' = <<"Anomaly.findOne", "setCameras">>
            /\ UNCHANGED anomalies
       ELSE /\ assoc' = setCameras(assoc, anomalyId, {})
            /\ calls' = <<"Anomaly.findOne", "setCameras", "destroy">>
            /\ IF fault = "destroy"
               THEN /\ resp' = Fail(500, "Failed to delete anomaly")
                    /\ UNCHANGED anomalies
               ELSE /\ anomalies' = destroy(anomalies, anomalyId)
                    /\ resp' = Res(200, "Anomaly deleted successfully", NoAnomaly, {})

(* ------------------------------- requests ----------------------------- *)

\* cameraIds lists of the requests: empty, one or two cameras of orgA, the
\* camera of orgB, a list mixing both organizations, a camera that is not
\* stored, and a list naming one camera twice.
CameraIdLists ==
    {<< >>, <<1>>, <<2>>, <<1, 2>>, <<3>>, <<1, 3>>, <<4>>, <<1, 1>>}

\* A complete, valid addAnomaly body for the given cameras and days
CreateBody(cameraIds, daysOfWeek) ==
    [title       |-> "t1",
     description |-> "d1",
     criticality |-> "low",
     modelName   |-> "m1",
     cameraIds   |-> cameraIds,
     startTime   |-> "09:00",
     endTime     |-> "17:00",
     daysOfWeek  |-> daysOfWeek]

WorkDays == Arr(<<"Mon", "Fri">>)

CreateBodies == {CreateBody(Arr(s), WorkDays) : s \in CameraIdLists}

\* updateAnomaly bodies: the scalar fields they carry, and the cameraIds
UpdateFields == {"title", "description", "criticality", "modelName", "status"}

NewValue(f) ==
    CASE f = "title" -> "t2"
      [] f = "description" -> "d2"
      [] f = "criticality" -> "high"
      [] f = "modelName" -> "m2"
      [] f = "status" -> "inactive"

UpdateBody(fields, cameraIds) ==
    [f \in UpdateFields |-> IF f \in fields THEN NewValue(f) ELSE Null]
        @@ [cameraIds |-> cameraIds]

\* Identifiers update and delete requests address: an identifier that was
\* not handed out yet, or whose row was destroyed, names no row.
AnomalyIds == 1..MaxAnomalies

(* --------- specification: associations and tenancy, reliable store ---- *)

CameraUpdates == {UpdateBody({}, c) : c \in {Absent} \cup {Arr(s) : s \in CameraIdLists}}

Create == \E o \in Orgs, b \in CreateBodies : addAnomaly(o, b, "none")
List   == \E o \in Orgs : getAllAnomalies(o, "none")
Update == \E o \in Orgs, i \in AnomalyIds, b \in CameraUpdates :
              updateAnomaly(o, i, b, "none")
Delete == \E o \in Orgs, i \in AnomalyIds : deleteAnomaly(o, i, "none")

Next == Create \/ List \/ Update \/ Delete

Spec == Init /\ [][Next]_vars

(* ------------- specification: field updates, reliable store ----------- *)

\* Each organization creates rules on one camera of its own
OwnCamera(o) == IF o = "orgA" THEN Arr(<<1>>) ELSE Arr(<<3>>)

FieldPatterns == {{}, {"title"}, UpdateFields}

FieldUpdates == {UpdateBody(fs, c) : fs \in FieldPatterns, c \in {Absent, Arr(<<2>>)}}

FieldsCreate == \E o \in Orgs : addAnomaly(o, CreateBody(OwnCamera(o), WorkDays), "none")
FieldsUpdate == \E o \in Orgs, i \in AnomalyIds, b \in FieldUpdates :
                    updateAnomaly(o, i, b, "none")
FieldsDelete == \E o \in Orgs, i \in AnomalyIds : deleteAnomaly(o, i, "none")

NextFields == FieldsCreate \/ FieldsUpdate \/ FieldsDelete

SpecFields == Init /\ [][NextFields]_vars

(* ------------- specification: request validation of addAnomaly -------- *)

RequiredFields ==
    {"title", "description", "modelName", "cameraIds", "startTime", "endTime",
     "daysOfWeek"}

\* body b without field f
Without(b, f) ==
    IF f \in {"cameraIds", "daysOfWeek"} THEN [b EXCEPT ![f] = Absent]
    ELSE IF f \in RequiredFields THEN [b EXCEPT ![f] = Null]
    ELSE b

CameraIdShapes == {Arr(<<1>>), Arr(<< >>), Scalar, Arr(<<3>>)}

DayShapes == {WorkDays, Arr(<< >>), Scalar, Arr(<<"Mon", "Funday">>)}

ValidateBodies ==
    {Without(CreateBody(c, d), f) :
        c \in CameraIdShapes, d \in DayShapes, f \in RequiredFields \cup {"none"}}
    \cup {[CreateBody(c, d) EXCEPT !.title = ""] :
        c \in CameraIdShapes, d \in DayShapes}

ValidateCreate == \E o \in Orgs, b \in ValidateBodies : addAnomaly(o, b, "none")

NextValidate == ValidateCreate

SpecValidate == Init /\ [][NextValidate]_vars

(* ---------------- specification: the store may fail ------------------- *)

CreateFaults == {"none", "Camera.findAll", "Anomaly.create", "setCameras",
                 "Anomaly.findByPk"}
UpdateFaults == {"none", "Anomaly.findOne", "Camera.findAll", "setCameras", "save",
                 "Anomaly.findByPk"}
DeleteFaults == {"none", "Anomaly.findOne", "setCameras", "destroy"}

FaultUpdates == {UpdateBody({}, Absent), UpdateBody(UpdateFields, Arr(<<2>>))}

FaultCreate == \E o \in Orgs, f \in CreateFaults :
                   addAnomaly(o, CreateBody(OwnCamera(o), WorkDays), f)
FaultList   == \E o \in Orgs, f \in {"none", "Anomaly.findAll"} : getAllAnomalies(o, f)
FaultUpdate == \E o \in Orgs, i \in AnomalyIds, b \in FaultUpdates, f \in UpdateFaults :
                   updateAnomaly(o, i, b, f)
FaultDelete == \E o \in Orgs, i \in AnomalyIds, f \in DeleteFaults :
                   deleteAnomaly(o, i, f)

NextFault == FaultCreate \/ FaultList \/ FaultUpdate \/ FaultDelete

SpecFault == Init /\ [][NextFault]_vars

(* ---------------- specification: the status of a rule ---------------- *)

\* The values the status column takes (models)
StatusDomain == {"active", "inactive"}

\* An update body carrying a status, or nothing at all (Null)
StatusBody(v) == [UpdateBody({}, Absent) EXCEPT !.status = v]

LifeCreate == \E o \in Orgs : addAnomaly(o, CreateBody(OwnCamera(o), WorkDays), "none")
LifeUpdate == \E o \in Orgs, i \in AnomalyIds, v \in StatusDomain \cup {Null} :
                  updateAnomaly(o, i, StatusBody(v), "none")
LifeDelete == \E o \in Orgs, i \in AnomalyIds : deleteAnomaly(o, i, "none")

NextLife == LifeCreate \/ LifeUpdate \/ LifeDelete

SpecLife == Init /\ [][NextLife]_vars

(* ------ specification: bodies carrying fields update does not read ---- *)

WeekendDays == Arr(<<"Sat">>)

\* Two addAnomaly bodies that differ in their times and days
FrameBodies(cameraIds) ==
    {CreateBody(cameraIds, WorkDays),
     [CreateBody(cameraIds, WeekendDays) EXCEPT !.startTime = "10:00",
                                                !.endTime = "18:00"]}

\* updateAnomaly bodies that also carry an owner, times and days; the handler
\* destructures only title, description, criticality, modelName, status and
\* cameraIds from req.body
FrameUpdates ==
    {UpdateBody(fs, Absent) @@ [organizationId |-> o, startTime |-> b.startTime,
                                endTime |-> b.endTime, daysOfWeek |-> b.daysOfWeek] :
        fs \in {{}, {"title"}}, o \in Orgs, b \in FrameBodies(Absent)}

FrameCreate == \E o \in Orgs : \E b \in FrameBodies(OwnCamera(o)) : addAnomaly(o, b, "none")
FrameUpdate == \E o \in Orgs, i \in AnomalyIds, b \in FrameUpdates :
                   updateAnomaly(o, i, b, "none")
FrameDelete == \E o \in Orgs, i \in AnomalyIds : deleteAnomaly(o, i, "none")

NextFrame == FrameCreate \/ FrameUpdate \/ FrameDelete

SpecFrame == Init /\ [][NextFrame]_vars

(* ---------- specification: requests in flight at the same time -------- *)

\* updateAnomaly and deleteAnomaly are async functions: between two awaits of
\* one request the awaits of another may run.  Each action below is one
\* awaited storage call of the request in slot t, with what follows it up to
\* the next await.

NoRow == [anomalyId |-> 0]

\* A request that was just received
Started(op, organizationId, anomalyId, b) ==
    [pc |-> "findOne", op |-> op, organizationId |-> organizationId,
     anomalyId |-> anomalyId, body |-> b,
     anomaly |-> NoRow,     \* const anomaly = await Anomaly.findOne(...)
     cameras |-> {},        \* const cameras = await Camera.findAll(...)
     current |-> {},        \* the join rows setCameras has read
     calls |-> << >>,
     status |-> 0]

ConcOrgs == {"orgA"}

ConcUpdates == {UpdateBody({}, Arr(<<1>>)), UpdateBody({}, Arr(<<2>>))}

\* The slot's request has come to its next await
Goto(t, pc, call) ==
    [tasks[t] EXCEPT !.pc = pc, !.calls = @ \o <<call>>]

\* The slot's request is answered
Finish(t, task, call, r) ==
    /\ tasks' = [tasks EXCEPT ![t] = [task EXCEPT !.pc = "done",
                                                  !.calls = @ \o <<call>>,
                                                  !.status = r.status]]
    /\ req' = Request(task.op, task.organizationId, task.anomalyId, task.body)
    /\ resp' = r
    /\ calls' = task.calls \o <<call>>

\* anomaly.setCameras, second half: the rows read before that are not among
\* the cameras are deleted, the cameras not among the rows read are inserted.
\* The insert does not look at the Anomaly table.
writeJoin(join, anomalyId, current, cameras) ==
    (join \ {<<anomalyId, c>> : c \in current \ cameras})
        \cup {<<anomalyId, c>> : c \in cameras \ current}

\* anomaly.save(): the fields that were assigned a new value are written to
\* the row, if it is still there
save(tbl, anomaly, b) ==
    IF anomaly.anomalyId \in DOMAIN tbl
    THEN [tbl EXCEPT ![anomaly.anomalyId] =
             [f \in DOMAIN @ |->
                 IF f \in UpdateFields /\ Merged(anomaly, b)[f] # anomaly[f]
                 THEN Merged(anomaly, b)[f] ELSE @[f]]]
    ELSE tbl

ConcCreate == addAnomaly("orgA", CreateBody(Arr(<<1, 2>>), WorkDays), "none")

ConcStart(t) ==
    /\ tasks[t].pc \in {"idle", "done"}
    /\ \E o \in ConcOrgs, i \in AnomalyIds :
          \/ \E b \in ConcUpdates :
                 tasks' = [tasks EXCEPT ![t] = Started("updateAnomaly", o, i, b)]
          \/ tasks' = [tasks EXCEPT ![t] = Started("deleteAnomaly", o, i, NoBody)]
    /\ UNCHANGED <<anomalies, assoc, nextId, req, resp, calls>>

\* await Anomaly.findOne(...)
ConcFindOne(t) ==
    LET k == tasks[t] IN
    /\ k.pc = "findOne"
    /\ UNCHANGED <<anomalies, assoc, nextId>>
    /\ IF ~findOne(anomalies, k.anomalyId, k.organizationId)
       THEN Finish(t, k, "Anomaly.findOne", Fail(404, NotFoundMsg))
       ELSE /\ tasks' = [tasks EXCEPT ![t] =
                   [Goto(t, IF k.op = "deleteAnomaly" THEN "readJoin"
                            ELSE IF FalsyArr(k.body.cameraIds) THEN "save"
                            ELSE "findAllCameras", "Anomaly.findOne")
                       EXCEPT !.anomaly = anomalies[k.anomalyId]]]
            /\ UNCHANGED <<req, resp, calls>>

\* await Camera.findAll(...)
ConcFindAllCameras(t) ==
    LET k       == tasks[t]
        cameras == findAllCameras(k.body.cameraIds.items, k.organizationId)
    IN
    /\ k.pc = "findAllCameras"
    /\ UNCHANGED <<anomalies, assoc, nextId>>
    /\ IF CountMismatch(cameras, k.body.cameraIds.items)
       THEN Finish(t, k, "Camera.findAll",
                   Fail(404, "One or more cameras not found or access denied"))
       ELSE /\ tasks' = [tasks EXCEPT ![t] =
                   [Goto(t, "readJoin", "Camera.findAll") EXCEPT !.cameras = cameras]]
            /\ UNCHANGED <<req, resp, calls>>

\* await anomaly.setCameras(...), first half: the anomaly's join rows are read
ConcReadJoin(t) ==
    LET k == tasks[t] IN
    /\ k.pc = "readJoin"
    /\ tasks' = [tasks EXCEPT ![t] =
           [k EXCEPT !.pc = "writeJoin", !.current = getCameras(assoc, k.anomalyId)]]
    /\ UNCHANGED <<anomalies, assoc, nextId, req, resp, calls>>

\* await anomaly.setCameras(...), second half.  Inserting a row the join table
\* already holds throws; the delete issued beside it may have been done.
ConcWriteJoin(t) ==
    LET k     == tasks[t]
        added == {<<k.anomalyId, c>> : c \in k.cameras \ k.current}
        msg   == IF k.op = "deleteAnomaly" THEN "Failed to delete anomaly"
                 ELSE "Failed to update anomaly"
    IN
    /\ k.pc = "writeJoin"
    /\ UNCHANGED <<anomalies, nextId>>
    /\ IF added \cap assoc # {}
       THEN /\ assoc' \in {assoc, writeJoin(assoc, k.anomalyId, k.current,
                                            k.cameras \cup k.current)}
            /\ Finish(t, k, "setCameras", Fail(500, msg))
       ELSE /\ assoc' = writeJoin(assoc, k.anomalyId, k.current, k.cameras)
            /\ tasks' = [tasks EXCEPT ![t] =
                   Goto(t, IF k.op = "deleteAnomaly" THEN "destroy" ELSE "save",
                        "setCameras")]
            /\ UNCHANGED <<req, resp, calls>>

\* await anomaly.save()
ConcSave(t) ==
    LET k == tasks[t] IN
    /\ k.pc = "save"
    /\ anomalies' = save(anomalies, k.anomaly, k.body)
    /\ tasks' = [tasks EXCEPT ![t] = Goto(t, "findByPk", "save")]
    /\ UNCHANGED <<assoc, nextId, req, resp, calls>>

\* await Anomaly.findByPk(...) and the 200 answer
ConcFindByPk(t) ==
    LET k == tasks[t] IN
    /\ k.pc = "findByPk"
    /\ UNCHANGED <<anomalies, assoc, nextId>>
    /\ Finish(t, k, "Anomaly.findByPk",
              Res(200, "Anomaly updated successfully",
                  IF k.anomalyId \in DOMAIN anomalies
                  THEN WithCameras(anomalies[k.anomalyId], assoc) ELSE NoAnomaly,
                  {}))

\* await anomaly.destroy() and the 200 answer
ConcDestroy(t) ==
    LET k == tasks[t] IN
    /\ k.pc = "destroy"
    /\ anomalies' = IF k.anomalyId \in DOMAIN anomalies
                    THEN destroy(anomalies, k.anomalyId) ELSE anomalies
    /\ UNCHANGED <<assoc, nextId>>
    /\ Finish(t, k, "destroy", Res(200, "Anomaly deleted successfully", NoAnomaly, {}))

ConcStep(t) ==
    \/ ConcStart(t) \/ ConcFindOne(t) \/ ConcFindAllCameras(t) \/ ConcReadJoin(t)
    \/ ConcWriteJoin(t) \/ ConcSave(t) \/ ConcFindByPk(t) \/ ConcDestroy(t)

NextConc == ConcCreate \/ \E t \in Tasks : ConcStep(t)

SpecConc == Init /\ [][NextConc]_vars

(* ======================================================================= *)
(*                               Properties                                *)
(* ======================================================================= *)

\* Camera c is stored and belongs to organization o
Owns(o, c) == c \in DOMAIN Camera /\ Camera[c] = o

\* An addAnomaly body that passes every check made before the camera query
WellFormed(b) ==
    /\ \A f \in {"title", "description", "modelName", "startTime", "endTime"} :
           b[f] \notin {Null, ""}
    /\ b.cameraIds.kind = "array" /\ b.cameraIds.items # << >>
    /\ b.daysOfWeek.kind = "array"
    /\ \A i \in DOMAIN b.daysOfWeek.items : b.daysOfWeek.items[i] \in DAYS_OF_WEEK

\* An otherwise well-formed addAnomaly request naming a camera its organization
\* does not own
UnownedCreate(r) ==
    /\ r.op = "addAnomaly"
    /\ WellFormed(r.body)
    /\ \E i \in DOMAIN r.body.cameraIds.items :
           ~Owns(r.organizationId, r.body.cameraIds.items[i])

\* C1: a well-formed create whose cameraIds name a camera of another
\* organization, or one that is not stored, is answered 404 and leaves the
\* Anomaly table and the join table as they were.
C1_UnownedCameraCreateRejected ==
    [][UnownedCreate(req') =>
          /\ resp'.status = 404
          /\ anomalies' = anomalies
          /\ assoc' = assoc]_vars

\* C1 witness: such a create was refused while a rule with cameras is stored
C1_Witness ==
    /\ UnownedCreate(req)
    /\ resp.status = 404
    /\ \E i \in DOMAIN req.body.cameraIds.items :
           Owns(req.organizationId, req.body.cameraIds.items[i])
    /\ assoc # {}

\* C2: the rule a successful create returns carries exactly the cameras that
\* are named in cameraIds and owned by the acting organization, as many as
\* the list is long, and the join table holds the same set for the new rule.
C2_CreatedCamerasExact ==
    (req.op = "addAnomaly" /\ resp.status = 201) =>
        LET ids   == req.body.cameraIds.items
            owned == {c \in Range(ids) : Owns(req.organizationId, c)}
        IN  /\ resp.anomaly.Cameras = owned
            /\ Cardinality(resp.anomaly.Cameras) = Len(ids)
            /\ Range(ids) \subseteq resp.anomaly.Cameras
            /\ getCameras(assoc, resp.anomaly.row.anomalyId) = owned
            /\ resp.anomaly.row.organizationId = req.organizationId

\* C2 witness: a create with two cameras succeeded
C2_Witness ==
    /\ req.op = "addAnomaly" /\ resp.status = 201
    /\ Len(req.body.cameraIds.items) = 2
    /\ Cardinality(resp.anomaly.Cameras) = 2

\* C3: every camera associated with a stored rule belongs to the rule's
\* organization.
C3_SameOrganization ==
    \A p \in assoc :
        p[1] \in DOMAIN anomalies => Owns(anomalies[p[1]].organizationId, p[2])

\* C3 witness: rules of both organizations hold cameras after an update that
\* replaced a camera set
C3_Witness ==
    /\ req.op = "updateAnomaly" /\ resp.status = 200
    /\ req.body.cameraIds.kind = "array"
    /\ \E a, b \in DOMAIN anomalies :
           /\ anomalies[a].organizationId = "orgA"
           /\ anomalies[b].organizationId = "orgB"
           /\ getCameras(assoc, a) # {}
           /\ getCameras(assoc, b) # {}

\* C4: after a successful update, every one of title, description,
\* criticality, modelName and status that the body omits has the value it had
\* before, every one it carries has the carried value, and a body without
\* cameraIds leaves the rule's cameras as they were.
C4_UpdateMerges ==
    [][(req'.op = "updateAnomaly" /\ resp'.status = 200) =>
          LET id == req'.anomalyId
              b  == req'.body
          IN  /\ id \in DOMAIN anomalies /\ id \in DOMAIN anomalies'
              /\ \A f \in UpdateFields :
                     anomalies'[id][f] = IF b[f] = Null THEN anomalies[id][f] ELSE b[f]
              /\ b.cameraIds.kind = "absent" =>
                     getCameras(assoc', id) = getCameras(assoc, id)]_vars

\* C4 witness: an update carrying only a title succeeded on a rule whose
\* other fields had been changed before and which has a camera
C4_Witness ==
    /\ req.op = "updateAnomaly" /\ resp.status = 200
    /\ req.body.title # Null /\ req.body.description = Null
    /\ req.body.cameraIds.kind = "absent"
    /\ resp.anomaly.row.description = "d2"
    /\ resp.anomaly.row.status = "inactive"
    /\ resp.anomaly.Cameras # {}

\* C5: after a successful update that carries a cameraIds array, the rule's
\* cameras are exactly the cameras named in it, in the join table and in the
\* returned rule; the cameras it had before and that are not named are gone.
C5_UpdateReplacesCameras ==
    [][(req'.op = "updateAnomaly" /\ resp'.status = 200
            /\ req'.body.cameraIds.kind = "array") =>
          LET id  == req'.anomalyId
              new == Range(req'.body.cameraIds.items)
          IN  /\ getCameras(assoc', id) = new
              /\ resp'.anomaly.Cameras = new
              /\ (getCameras(assoc, id) \ new) \cap getCameras(assoc', id) = {}
              /\ Cardinality({p \in assoc' : p[1] = id}) = Cardinality(new)]_vars

\* C5 witness: an update set a rule's cameras to camera 2 alone while another
\* rule holds cameras 1 and 2
C5_Witness ==
    /\ req.op = "updateAnomaly" /\ resp.status = 200
    /\ req.body.cameraIds = Arr(<<2>>)
    /\ getCameras(assoc, req.anomalyId) = {2}
    /\ \E i \in DOMAIN anomalies : i # req.anomalyId /\ getCameras(assoc, i) = {1, 2}

\* Identifiers that were handed out and whose row is gone
Destroyed == {i \in 1..(nextId - 1) : i \notin DOMAIN anomalies}

\* C6: a successful delete leaves neither the rule's row nor any association
\* of it, and from then on the identifier names no row, has no association
\* and is in no list getAllAnomalies returns.
C6_DeletedStaysGone ==
    [][/\ (req'.op = "deleteAnomaly" /\ resp'.status = 200) =>
              /\ req'.anomalyId \in DOMAIN anomalies
              /\ req'.anomalyId \notin DOMAIN anomalies'
              /\ getCameras(assoc', req'.anomalyId) = {}
       /\ \A i \in Destroyed :
              /\ i \notin DOMAIN anomalies'
              /\ getCameras(assoc', i) = {}
              /\ req'.op = "getAllAnomalies" =>
                     \A a \in resp'.list : a.row.anomalyId # i]_vars

\* C6 witness: a list is returned, with a rule in it, after a rule was deleted
C6_Witness ==
    /\ req.op = "getAllAnomalies" /\ resp.status = 200
    /\ Destroyed # {}
    /\ resp.list # {}

\* An addAnomaly request whose daysOfWeek array holds a value that is no weekday
BadDayCreate(r) ==
    /\ r.op = "addAnomaly"
    /\ r.body.daysOfWeek.kind = "array"
    /\ \E i \in DOMAIN r.body.daysOfWeek.items :
           r.body.daysOfWeek.items[i] \notin DAYS_OF_WEEK

\* C7: a create whose daysOfWeek array holds a value outside the weekday
\* domain is answered 400 without any storage call, and with "Invalid day
\* values" when nothing checked earlier is wrong.
C7_BadDayRejected ==
    BadDayCreate(req) =>
        /\ resp.status = 400
        /\ calls = << >>
        /\ WellFormed([req.body EXCEPT !.daysOfWeek = WorkDays])
               => resp.error = "Invalid day values"

\* C7 witness: such a create, with nothing else wrong, was refused while a
\* rule is stored
C7_Witness ==
    /\ BadDayCreate(req)
    /\ resp.error = "Invalid day values"
    /\ req.body.daysOfWeek.items[1] \in DAYS_OF_WEEK
    /\ DOMAIN anomalies # {}

\* An addAnomaly request that lacks a required field
MissingFieldCreate(r) ==
    /\ r.op = "addAnomaly"
    /\ \/ \E f \in {"title", "description", "modelName", "startTime", "endTime"} :
              r.body[f] = Null
       \/ r.body.cameraIds = Absent
       \/ r.body.daysOfWeek = Absent

\* C8: a create that lacks any of the seven required fields is answered 400
\* "Missing required fields", whatever else is wrong with it, and no storage
\* call was made.
C8_MissingFieldFirst ==
    MissingFieldCreate(req) =>
        /\ resp.status = 400
        /\ resp.error = "Missing required fields"
        /\ calls = << >>

\* C8 witness: a create lacking only endTime, naming a camera of another
\* organization and an invalid day, got the missing-field answer
C8_Witness ==
    /\ MissingFieldCreate(req)
    /\ req.body.endTime = Null /\ req.body.title # Null
    /\ req.body.cameraIds.kind = "array" /\ req.body.cameraIds.items # << >>
    /\ ~Owns(req.organizationId, req.body.cameraIds.items[1])
    /\ BadDayCreate(req)
    /\ resp.error = "Missing required fields"

\* An update or delete request r that, in table tbl, addresses no row of its
\* organization
Unaddressed(r, tbl) ==
    /\ r.op \in {"updateAnomaly", "deleteAnomaly"}
    /\ ~(r.anomalyId \in DOMAIN tbl
            /\ tbl[r.anomalyId].organizationId = r.organizationId)

\* C9: an update or delete addressing an identifier that names no row, or a
\* row of another organization, is answered 404 and changes no row and no
\* association; and no request changes a row or an association of a rule of
\* an organization other than the acting one.
C9_ForeignRuleUntouched ==
    [][/\ Unaddressed(req', anomalies) =>
              /\ resp'.status = 404
              /\ anomalies' = anomalies
              /\ assoc' = assoc
       /\ \A i \in DOMAIN anomalies :
              anomalies[i].organizationId # req'.organizationId =>
                  /\ i \in DOMAIN anomalies'
                  /\ anomalies'[i] = anomalies[i]
                  /\ getCameras(assoc', i) = getCameras(assoc, i)]_vars

\* C9 witness: an update carrying new field values and cameras was refused
\* for a rule of the other organization
C9_Witness ==
    /\ req.op = "updateAnomaly" /\ resp.status = 404
    /\ req.anomalyId \in DOMAIN anomalies
    /\ anomalies[req.anomalyId].organizationId # req.organizationId
    /\ req.body.title # Null
    /\ req.body.cameraIds.kind = "array"
    /\ getCameras(assoc, req.anomalyId) # {}

\* C10 (as claimed): a create that reports a failure leaves no new row in the
\* Anomaly table and no new association.
C10_CreateAllOrNothing ==
    [][(req'.op = "addAnomaly" /\ resp'.status >= 400) =>
          /\ DOMAIN anomalies' = DOMAIN anomalies
          /\ assoc' = assoc]_vars

\* C11: the list getAllAnomalies returns holds exactly the stored rules of
\* the acting organization, each as stored and with exactly its cameras.
C11_ListExact ==
    (req.op = "getAllAnomalies" /\ resp.status = 200) =>
        /\ {a.row.anomalyId : a \in resp.list} =
               {i \in DOMAIN anomalies : anomalies[i].organizationId = req.organizationId}
        /\ \A a \in resp.list :
               /\ a.row = anomalies[a.row.anomalyId]
               /\ a.Cameras = {c \in DOMAIN Camera : <<a.row.anomalyId, c>> \in assoc}
        /\ Cardinality(resp.list) = Cardinality({a.row.anomalyId : a \in resp.list})

\* C11 witness: a list with one rule and its two cameras is returned while
\* the other organization has a rule too
C11_Witness ==
    /\ req.op = "getAllAnomalies" /\ resp.status = 200
    /\ \E a \in resp.list : Cardinality(a.Cameras) = 2
    /\ \E i \in DOMAIN anomalies : anomalies[i].organizationId # req.organizationId

\* C12 (as claimed): no row of the join table names a rule whose row was
\* destroyed, whatever the interleaving of the requests in flight.
C12_NoAssociationOfDestroyed ==
    \A p \in assoc : p[1] \notin Destroyed

\* C13 (as claimed): when the requests of both slots are successful updates
\* of the same rule carrying camera sets S1 and S2, the rule's cameras are
\* exactly S1 or exactly S2.
C13_ConcurrentUpdatesSerialized ==
    (/\ tasks["t1"].pc = "done" /\ tasks["t2"].pc = "done"
     /\ tasks["t1"].op = "updateAnomaly" /\ tasks["t2"].op = "updateAnomaly"
     /\ tasks["t1"].status = 200 /\ tasks["t2"].status = 200
     /\ tasks["t1"].anomalyId = tasks["t2"].anomalyId) =>
        getCameras(assoc, tasks["t1"].anomalyId) \in
            {Range(tasks["t1"].body.cameraIds.items),
             Range(tasks["t2"].body.cameraIds.items)}

\* Where rule i is in its lifecycle, given the Anomaly table and the counter
Phase(tbl, next, i) ==
    IF i \in DOMAIN tbl THEN tbl[i].status
    ELSE IF i < next THEN "deleted" ELSE "nonexistent"

AddressesOwnRule(r, tbl) ==
    /\ r.anomalyId \in DOMAIN tbl
    /\ tbl[r.anomalyId].organizationId = r.organizationId

CamerasDenied == "One or more cameras not found or access denied"

\* C15: an update of a rule of the acting organization whose cameraIds array
\* names a camera that organization does not own is answered 404 "One or more
\* cameras not found or access denied", and neither the rule's fields nor any
\* association changes, whatever field values the body carries.
C15_UnownedCameraUpdateRejected ==
    [][(/\ req'.op = "updateAnomaly"
        /\ AddressesOwnRule(req', anomalies)
        /\ req'.body.cameraIds.kind = "array"
        /\ \E k \in DOMAIN req'.body.cameraIds.items :
               ~Owns(req'.organizationId, req'.body.cameraIds.items[k]))
       => /\ resp' = Fail(404, CamerasDenied)
          /\ anomalies' = anomalies
          /\ assoc' = assoc]_vars

\* C15 witness: such an update carrying every field was refused and the rule
\* still has its created title, status and camera
C15_Witness ==
    /\ req.op = "updateAnomaly" /\ resp = Fail(404, CamerasDenied)
    /\ AddressesOwnRule(req, anomalies)
    /\ req.body.title = "t2" /\ req.body.status = "inactive"
    /\ anomalies[req.anomalyId].title = "t1"
    /\ anomalies[req.anomalyId].status = "active"
    /\ getCameras(assoc, req.anomalyId) = Range(OwnCamera(req.organizationId).items)

\* C16: an update that is answered 500 because anomaly.save() threw has
\* changed neither a rule's fields nor any association.
C16_UpdateAllOrNothing ==
    [][(/\ req'.op = "updateAnomaly" /\ resp'.status = 500
        /\ calls' # << >> /\ calls'[Len(calls')] = "save")
       => anomalies' = anomalies /\ assoc' = assoc]_vars

\* The list names some identifier more than once
HasDuplicate(s) == \E j, k \in DOMAIN s : j # k /\ s[j] = s[k]

\* C17: a well-formed create, or an update of a rule of the acting
\* organization, whose cameraIds array names one identifier twice is answered
\* 404 "One or more cameras not found or access denied" and changes no table,
\* also when every camera named belongs to the acting organization.
C17_DuplicateCameraRejected ==
    [][(/\ \/ req'.op = "addAnomaly" /\ WellFormed(req'.body)
           \/ req'.op = "updateAnomaly" /\ AddressesOwnRule(req', anomalies)
        /\ req'.body.cameraIds.kind = "array"
        /\ HasDuplicate(req'.body.cameraIds.items))
       => /\ resp' = Fail(404, CamerasDenied)
          /\ anomalies' = anomalies
          /\ assoc' = assoc
          /\ nextId' = nextId]_vars

\* C17 witness: an update naming one owned camera twice was refused for a
\* rule that is stored with that camera
C17_Witness ==
    /\ req.op = "updateAnomaly" /\ resp = Fail(404, CamerasDenied)
    /\ AddressesOwnRule(req, anomalies)
    /\ HasDuplicate(req.body.cameraIds.items)
    /\ \A k \in DOMAIN req.body.cameraIds.items :
           /\ Owns(req.organizationId, req.body.cameraIds.items[k])
           /\ req.body.cameraIds.items[k] \in getCameras(assoc, req.anomalyId)

\* C18: no step changes the organizationId, startTime, endTime or daysOfWeek
\* of a stored rule, and a rule that comes into being has the acting
\* organization and the times and days of its addAnomaly body; so every stored
\* rule has the four values it was created with.
C18_OwnerAndScheduleFixed ==
    [][/\ \A i \in DOMAIN anomalies \cap DOMAIN anomalies' :
              /\ anomalies'[i].organizationId = anomalies[i].organizationId
              /\ anomalies'[i].startTime = anomalies[i].startTime
              /\ anomalies'[i].endTime = anomalies[i].endTime
              /\ anomalies'[i].daysOfWeek = anomalies[i].daysOfWeek
       /\ \A i \in DOMAIN anomalies' \ DOMAIN anomalies :
              /\ req'.op = "addAnomaly" /\ i = nextId /\ nextId' > nextId
              /\ anomalies'[i].organizationId = req'.organizationId
              /\ anomalies'[i].startTime = req'.body.startTime
              /\ anomalies'[i].endTime = req'.body.endTime
              /\ anomalies'[i].daysOfWeek = req'.body.daysOfWeek.items]_vars

\* C18 witness: an update whose body carried another owner, other times and
\* other days was applied (the title is the new one) to a rule that still has
\* its own owner, times and days
C18_Witness ==
    /\ req.op = "updateAnomaly" /\ resp.status = 200
    /\ req.body.title = "t2" /\ anomalies[req.anomalyId].title = "t2"
    /\ req.body.organizationId # anomalies[req.anomalyId].organizationId
    /\ req.body.startTime # anomalies[req.anomalyId].startTime
    /\ req.body.endTime # anomalies[req.anomalyId].endTime
    /\ req.body.daysOfWeek.items # anomalies[req.anomalyId].daysOfWeek

\* C19: a create whose cameraIds is the empty array is answered 400 and stores
\* nothing, while an update of a rule of the acting organization whose
\* cameraIds is the empty array is answered 200 and leaves the rule stored
\* with no camera.
C19_EmptyCameraList ==
    [][/\ (req'.op = "addAnomaly" /\ req'.body.cameraIds = Arr(<< >>))
          => /\ resp'.status = 400
             /\ anomalies' = anomalies /\ assoc' = assoc /\ nextId' = nextId
       /\ (/\ req'.op = "updateAnomaly" /\ AddressesOwnRule(req', anomalies)
           /\ req'.body.cameraIds = Arr(<< >>))
          => /\ resp'.status = 200
             /\ req'.anomalyId \in DOMAIN anomalies'
             /\ getCameras(assoc', req'.anomalyId) = {}]_vars

\* C19 witness: a stored rule has no camera after such an update, where it
\* had one when it was created
C19_Witness ==
    /\ req.op = "updateAnomaly" /\ resp.status = 200
    /\ req.body.cameraIds = Arr(<< >>)
    /\ req.anomalyId \in DOMAIN anomalies
    /\ getCameras(assoc, req.anomalyId) = {}
    /\ resp.anomaly.Cameras = {}

====
